---- MODULE Spec2Model ----
(***************************************************************************)
(* Model of the backtesting core of ik-api (src/backtest.py):              *)
(*   BacktestEngine.__init__                    the train/validation split *)
(*   BacktestEngine.moving_average_crossover_strategy   signal generator   *)
(*   BacktestEngine.calculate_performance       performance calculator     *)
(*   optimize_strategy.find_optimal_params      grid-search optimizer      *)
(*                                                                         *)
(* Numbers.  Closes, prices and capital are integers.  A Python float that *)
(* is a quotient is kept as an exact fraction <<num, den>> in lowest terms *)
(* (den > 0); round(x, 2) is modelled by Round2, which yields the rounded  *)
(* value as an integer count of hundredths.  Python list indexing is       *)
(* modelled with its negative-index rule (PyIndexOK, PyPos).               *)
(***************************************************************************)
EXTENDS Integers, Sequences, FiniteSets, TLC

VARIABLES
    full_data,        \* BacktestEngine.full_data
    train_split,      \* BacktestEngine.train_split, a fraction <<num, den>>
    train_data,       \* BacktestEngine.train_data
    validation_data,  \* BacktestEngine.validation_data
    pc,               \* position of the running call
    data,             \* moving_average_crossover_strategy: argument data
    short_period,     \* moving_average_crossover_strategy: argument
    long_period,      \* moving_average_crossover_strategy: argument
    i,                \* moving_average_crossover_strategy: loop index
    position_open,    \* moving_average_crossover_strategy: local
    trades,           \* signal list (strategy result / calculator input)
    raised,           \* the exception a call ended with, or "none"
    initial_capital,  \* calculate_performance / optimizer: argument
    perf,             \* calculate_performance: loop locals
    report,           \* calculate_performance: returned dict
    opt,              \* find_optimal_params: locals and returned dict
    strategy_name,    \* run_backtest: argument
    backtest          \* run_backtest: locals and returned dict

vars == <<full_data, train_split, train_data, validation_data, pc, data,
          short_period, long_period, i, position_open, trades, raised,
          initial_capital, perf, report, opt, strategy_name, backtest>>

engineVars == <<full_data, train_split, train_data, validation_data>>
strategyVars == <<data, short_period, long_period, i, position_open>>

-----------------------------------------------------------------------------
(* Bounds of the model *)

MaxBars == 5      \* longest series given to the signal generator alone
MaxClose == 3     \* closes are drawn from 1..MaxClose
MaxPeriod == 3    \* window lengths are drawn from 0..MaxPeriod
MaxSignals == 4   \* longest signal list given to the calculator alone
MaxPrice == 3     \* signal prices are drawn from 1..MaxPrice
OptBars == 40     \* length of the series given to the optimizer
OptRun == 6       \* its closes stay low, then high, for 1..OptRun bars each
MaxRise == 7      \* rising series take their closes from 1..MaxRise
BacktestBars == 6 \* longest series given to run_backtest

-----------------------------------------------------------------------------
(* Exact fractions standing for Python floats *)

RECURSIVE Gcd(_, _)
Gcd(a, b) == IF b = 0 THEN a ELSE Gcd(b, a % b)

Abs(x) == IF x < 0 THEN -x ELSE x

\* n / d in lowest terms, d > 0
Rat(n, d) ==
    LET g == Gcd(Abs(n), d)
    IN  <<n \div g, d \div g>>

RatMul(x, y) == Rat(x[1] * y[1], x[2] * y[2])
RatDivInt(x, k) == Rat(x[1], x[2] * k)
RatSubInt(x, k) == Rat(x[1] - k * x[2], x[2])
RatGtInt(x, k) == x[1] > k * x[2]

\* round(x, 2) as a count of hundredths: nearest, ties to even
Round2(x) ==
    LET n == x[1] * 100
        q == n \div x[2]
        r == n % x[2]
    IN  IF 2 * r > x[2] THEN q + 1
        ELSE IF 2 * r < x[2] THEN q
        ELSE IF q % 2 = 0 THEN q ELSE q + 1

-----------------------------------------------------------------------------
(* Python list indexing: data[j] for a list of length n *)

PyIndexOK(j, n) == j >= -n /\ j < n
\* PyPos with a negative index clamped to the first bar instead of wrapping
PyPosClamp(j, n) == IF j < 0 THEN 0 ELSE j
PyPos(j, n) == IF j < 0 THEN j + n ELSE j
At(s, j) == s[PyPos(j, Len(s)) + 1]

\* [data[j] for j in range(lo, hi)] raises IndexError unless every j is valid
WindowOK(s, lo, hi) == \A j \in lo..(hi - 1) : PyIndexOK(j, Len(s))

\* the positions range(lo, hi) reads, after the negative-index rule
WindowPositions(s, lo, hi) == {PyPos(j, Len(s)) : j \in lo..(hi - 1)}

RECURSIVE SumCloses(_, _, _)
SumCloses(s, lo, hi) ==
    IF lo >= hi THEN 0 ELSE At(s, lo).close + SumCloses(s, lo + 1, hi)

\* a bar series with the given closes; dates are ascending and unique
MkSeries(closes) ==
    [k \in 1..Len(closes) |-> [date |-> k, close |-> closes[k]]]

\* data[a:b] for 0 <= a, b
Slice(s, a, b) ==
    LET lo == IF a > Len(s) THEN Len(s) ELSE a
        hi == IF b > Len(s) THEN Len(s) ELSE b
    IN  IF hi <= lo THEN <<>> ELSE [k \in 1..(hi - lo) |-> s[lo + k]]

-----------------------------------------------------------------------------
(* BacktestEngine.__init__ *)

\* int(len(data) * train_split) for the fraction f = <<num, den>>
SplitIndex(n, f) == (n * f[1]) \div f[2]

\* data[:split_index]
TrainSlice(s, k) == Slice(s, 0, k)

\* ValidationSlice starting one bar late
ValidationSliceSkipsOne(s, k) == Slice(s, k + 1, Len(s))

\* data[split_index:]
ValidationSlice(s, k) == Slice(s, k, Len(s))

-----------------------------------------------------------------------------
(* moving_average_crossover_strategy *)

Signal(s, k, action, short_sum, sp, long_sum, lp) ==
    [date |-> At(s, k).date, action |-> action, price |-> At(s, k).close,
     short_ma |-> Rat(short_sum, sp), long_ma |-> Rat(long_sum, lp)]

\* Crossover with the position test of the BUY branch left out
CrossoverNoPositionTest(s, sp, lp, k, open, sigs, w) ==
    IF w.prev_short_sum * lp <= w.prev_long_sum * sp
       /\ w.short_sum * lp > w.long_sum * sp
    THEN [raised |-> "none", position_open |-> TRUE,
          trades |-> Append(sigs,
              Signal(s, k, "BUY", w.short_sum, sp, w.long_sum, lp))]
    ELSE IF w.prev_short_sum * lp >= w.prev_long_sum * sp
            /\ w.short_sum * lp < w.long_sum * sp /\ open
    THEN [raised |-> "none", position_open |-> FALSE,
          trades |-> Append(sigs,
              Signal(s, k, "SELL", w.short_sum, sp, w.long_sum, lp))]
    ELSE [raised |-> "none", position_open |-> open, trades |-> sigs]

\* Crossover whose SELL branch tests short_ma > long_ma
CrossoverSellAbove(s, sp, lp, k, open, sigs, w) ==
    IF w.prev_short_sum * lp <= w.prev_long_sum * sp
       /\ w.short_sum * lp > w.long_sum * sp /\ ~open
    THEN [raised |-> "none", position_open |-> TRUE,
          trades |-> Append(sigs,
              Signal(s, k, "BUY", w.short_sum, sp, w.long_sum, lp))]
    ELSE IF w.prev_short_sum * lp >= w.prev_long_sum * sp
            /\ w.short_sum * lp > w.long_sum * sp /\ open
    THEN [raised |-> "none", position_open |-> FALSE,
          trades |-> Append(sigs,
              Signal(s, k, "SELL", w.short_sum, sp, w.long_sum, lp))]
    ELSE [raised |-> "none", position_open |-> open, trades |-> sigs]

\* The crossover test of one pass, given the four window sums w; the
\* averages sum/p are compared by cross-multiplication (p > 0).
Crossover(s, sp, lp, k, open, sigs, w) ==
    IF w.prev_short_sum * lp <= w.prev_long_sum * sp
       /\ w.short_sum * lp > w.long_sum * sp /\ ~open
    THEN [raised |-> "none", position_open |-> TRUE,
          trades |-> Append(sigs,
              Signal(s, k, "BUY", w.short_sum, sp, w.long_sum, lp))]
    ELSE IF w.prev_short_sum * lp >= w.prev_long_sum * sp
            /\ w.short_sum * lp < w.long_sum * sp /\ open
    THEN [raised |-> "none", position_open |-> FALSE,
          trades |-> Append(sigs,
              Signal(s, k, "SELL", w.short_sum, sp, w.long_sum, lp))]
    ELSE [raised |-> "none", position_open |-> open, trades |-> sigs]

\* One pass of the loop body at index k.  The result names the exception the
\* body raises ("none" if it completes), and the locals after it.
StrategyIteration(s, sp, lp, k, open, sigs) ==
    IF ~WindowOK(s, k - sp, k)
    THEN [raised |-> "IndexError", position_open |-> open, trades |-> sigs]
    ELSE IF sp = 0
    THEN [raised |-> "ZeroDivisionError", position_open |-> open,
          trades |-> sigs]
    ELSE IF ~WindowOK(s, k - lp, k)
    THEN [raised |-> "IndexError", position_open |-> open, trades |-> sigs]
    ELSE IF lp = 0
    THEN [raised |-> "ZeroDivisionError", position_open |-> open,
          trades |-> sigs]
    ELSE IF ~WindowOK(s, k - sp - 1, k - 1)
    THEN [raised |-> "IndexError", position_open |-> open, trades |-> sigs]
    ELSE IF ~WindowOK(s, k - lp - 1, k - 1)
    THEN [raised |-> "IndexError", position_open |-> open, trades |-> sigs]
    ELSE Crossover(s, sp, lp, k, open, sigs,
                   [short_sum |-> SumCloses(s, k - sp, k),
                    long_sum |-> SumCloses(s, k - lp, k),
                    prev_short_sum |-> SumCloses(s, k - sp - 1, k - 1),
                    prev_long_sum |-> SumCloses(s, k - lp - 1, k - 1)])

\* the loop from index k to the end of the series; StrategyAfter is what
\* follows the pass at index k, whose outcome is r
RECURSIVE StrategyLoop(_, _, _, _, _, _)
StrategyAfter(s, sp, lp, k, r) ==
    IF r.raised # "none"
    THEN [raised |-> r.raised, trades |-> <<>>]
    ELSE StrategyLoop(s, sp, lp, k + 1, r.position_open, r.trades)

StrategyLoop(s, sp, lp, k, open, sigs) ==
    IF k >= Len(s) THEN [raised |-> "none", trades |-> sigs]
    ELSE StrategyAfter(s, sp, lp, k,
                       StrategyIteration(s, sp, lp, k, open, sigs))

\* the guard of the early return
InsufficientData(s, lp) == Len(s) < lp

\* the whole call: the returned list, or the exception raised
Strategy(s, sp, lp) ==
    IF InsufficientData(s, lp) THEN [raised |-> "none", trades |-> <<>>]
    ELSE StrategyLoop(s, sp, lp, lp, FALSE, <<>>)

-----------------------------------------------------------------------------
(* calculate_performance *)
(* Money and percentages in a report are counts of hundredths; win_rate,   *)
(* which the code does not round, is an exact fraction.                    *)

\* the early return for fewer than 2 signals
ZeroActivityReport(capital0) ==
    [total_trades |-> 0, profitable_trades |-> 0, losing_trades |-> 0,
     win_rate |-> <<0, 1>>, total_return |-> 0,
     final_capital |-> 100 * capital0]

\* the locals before the loop
PerfLocals(capital0) ==
    [capital |-> <<capital0, 1>>, shares |-> <<0, 1>>,
     profitable_trades |-> 0, losing_trades |-> 0]

\* PerfIteration whose BUY branch forgets to divide by the price
PerfIterationNoDivide(st, trade, capital0) ==
    IF trade.action = "BUY"
    THEN [st EXCEPT !.shares = st.capital, !.capital = <<0, 1>>]
    ELSE IF trade.action = "SELL" /\ st.shares[1] > 0
    THEN LET sell_value == RatMul(st.shares, <<trade.price, 1>>)
         IN  [capital |-> sell_value, shares |-> <<0, 1>>,
              profitable_trades |->
                  IF RatGtInt(sell_value, capital0)
                  THEN st.profitable_trades + 1 ELSE st.profitable_trades,
              losing_trades |->
                  IF RatGtInt(sell_value, capital0)
                  THEN st.losing_trades ELSE st.losing_trades + 1]
    ELSE st

\* PerfIteration counting a sale equal to initial_capital as profitable
PerfIterationTieProfitable(st, trade, capital0) ==
    IF trade.action = "BUY"
    THEN [st EXCEPT !.shares = RatDivInt(st.capital, trade.price),
                    !.capital = <<0, 1>>]
    ELSE IF trade.action = "SELL" /\ st.shares[1] > 0
    THEN LET sell_value == RatMul(st.shares, <<trade.price, 1>>)
         IN  [capital |-> sell_value, shares |-> <<0, 1>>,
              profitable_trades |->
                  IF sell_value[1] >= capital0 * sell_value[2]
                  THEN st.profitable_trades + 1 ELSE st.profitable_trades,
              losing_trades |->
                  IF sell_value[1] >= capital0 * sell_value[2]
                  THEN st.losing_trades ELSE st.losing_trades + 1]
    ELSE st

\* one pass of the loop body
PerfIteration(st, trade, capital0) ==
    IF trade.action = "BUY"
    THEN [st EXCEPT !.shares = RatDivInt(st.capital, trade.price),
                    !.capital = <<0, 1>>]
    ELSE IF trade.action = "SELL" /\ st.shares[1] > 0
    THEN LET sell_value == RatMul(st.shares, <<trade.price, 1>>)
         IN  [capital |-> sell_value, shares |-> <<0, 1>>,
              profitable_trades |->
                  IF RatGtInt(sell_value, capital0)
                  THEN st.profitable_trades + 1 ELSE st.profitable_trades,
              losing_trades |->
                  IF RatGtInt(sell_value, capital0)
                  THEN st.losing_trades ELSE st.losing_trades + 1]
    ELSE st

RECURSIVE PerfLoop(_, _, _, _)
PerfLoop(st, sigs, k, capital0) ==
    IF k > Len(sigs) THEN st
    ELSE PerfLoop(PerfIteration(st, sigs[k], capital0), sigs, k + 1, capital0)

\* CountBuys counting the SELL signals instead
CountSells(sigs) == Cardinality({k \in 1..Len(sigs) : sigs[k].action = "SELL"})

\* len([t for t in trades if t["action"] == "BUY"])
CountBuys(sigs) == Cardinality({k \in 1..Len(sigs) : sigs[k].action = "BUY"})

\* PerfReport without the mark of an open position
PerfReportNoMark(st, sigs, capital0) ==
    LET capital == st.capital
        total_completed_trades == st.profitable_trades + st.losing_trades
        total_return ==
            RatMul(RatDivInt(RatSubInt(capital, capital0), capital0),
                   <<100, 1>>)
    IN  [total_trades |-> CountBuys(sigs),
         completed_trades |-> total_completed_trades,
         profitable_trades |-> st.profitable_trades,
         losing_trades |-> st.losing_trades,
         win_rate |-> IF total_completed_trades > 0
                      THEN Rat(st.profitable_trades * 100,
                               total_completed_trades)
                      ELSE <<0, 1>>,
         initial_capital |-> 100 * capital0,
         final_capital |-> Round2(capital),
         total_return |-> Round2(total_return),
         total_return_dollars |-> Round2(RatSubInt(capital, capital0))]

\* PerfReport with the win rate taken over the BUY signals
PerfReportWinRatePerBuy(st, sigs, capital0) ==
    LET capital == IF st.shares[1] > 0 /\ Len(sigs) > 0
                   THEN RatMul(st.shares, <<sigs[Len(sigs)].price, 1>>)
                   ELSE st.capital
        total_completed_trades == st.profitable_trades + st.losing_trades
        total_return ==
            RatMul(RatDivInt(RatSubInt(capital, capital0), capital0),
                   <<100, 1>>)
    IN  [total_trades |-> CountBuys(sigs),
         completed_trades |-> total_completed_trades,
         profitable_trades |-> st.profitable_trades,
         losing_trades |-> st.losing_trades,
         win_rate |-> IF total_completed_trades > 0
                      THEN Rat(st.profitable_trades * 100, CountBuys(sigs))
                      ELSE <<0, 1>>,
         initial_capital |-> 100 * capital0,
         final_capital |-> Round2(capital),
         total_return |-> Round2(total_return),
         total_return_dollars |-> Round2(RatSubInt(capital, capital0))]

\* PerfReport marking an open position at the price of the first signal
PerfReportMarkAtFirst(st, sigs, capital0) ==
    LET capital == IF st.shares[1] > 0 /\ Len(sigs) > 0
                   THEN RatMul(st.shares, <<sigs[1].price, 1>>)
                   ELSE st.capital
        total_completed_trades == st.profitable_trades + st.losing_trades
        total_return ==
            RatMul(RatDivInt(RatSubInt(capital, capital0), capital0),
                   <<100, 1>>)
    IN  [total_trades |-> CountBuys(sigs),
         completed_trades |-> total_completed_trades,
         profitable_trades |-> st.profitable_trades,
         losing_trades |-> st.losing_trades,
         win_rate |-> IF total_completed_trades > 0
                      THEN Rat(st.profitable_trades * 100,
                               total_completed_trades)
                      ELSE <<0, 1>>,
         initial_capital |-> 100 * capital0,
         final_capital |-> Round2(capital),
         total_return |-> Round2(total_return),
         total_return_dollars |-> Round2(RatSubInt(capital, capital0))]

\* what follows the loop: the mark of an open position and the report
PerfReport(st, sigs, capital0) ==
    LET capital == IF st.shares[1] > 0 /\ Len(sigs) > 0
                   THEN RatMul(st.shares, <<sigs[Len(sigs)].price, 1>>)
                   ELSE st.capital
        total_completed_trades == st.profitable_trades + st.losing_trades
        total_return ==
            RatMul(RatDivInt(RatSubInt(capital, capital0), capital0),
                   <<100, 1>>)
    IN  [total_trades |-> CountBuys(sigs),
         completed_trades |-> total_completed_trades,
         profitable_trades |-> st.profitable_trades,
         losing_trades |-> st.losing_trades,
         win_rate |-> IF total_completed_trades > 0
                      THEN Rat(st.profitable_trades * 100,
                               total_completed_trades)
                      ELSE <<0, 1>>,
         initial_capital |-> 100 * capital0,
         final_capital |-> Round2(capital),
         total_return |-> Round2(total_return),
         total_return_dollars |-> Round2(RatSubInt(capital, capital0))]

\* FewerThanTwo testing only for the empty list
EmptyOnly(sigs) == Len(sigs) = 0

\* the guard of the early return: not trades or len(trades) < 2
FewerThanTwo(sigs) == Len(sigs) < 2

\* CalculatePerformance without the early return
CalculatePerformanceNoEarlyReturn(sigs, capital0) ==
    PerfReport(PerfLoop(PerfLocals(capital0), sigs, 1, capital0),
               sigs, capital0)

\* the whole call
CalculatePerformance(sigs, capital0) ==
    IF FewerThanTwo(sigs) THEN ZeroActivityReport(capital0)
    ELSE PerfReport(PerfLoop(PerfLocals(capital0), sigs, 1, capital0),
                    sigs, capital0)

-----------------------------------------------------------------------------
(* Values of the variables a specification does not use *)

NoReport == [none |-> TRUE]
NoPerf == [none |-> TRUE]
NoOpt == [none |-> TRUE]
NoBacktest == [none |-> TRUE]
NoSeries == <<>>

Capitals == {1000, 10000}

\* every bar series of at most MaxBars bars with closes in 1..MaxClose
SmallSeries ==
    {MkSeries(c) : c \in UNION {[1..n -> 1..MaxClose] : n \in 0..MaxBars}}

-----------------------------------------------------------------------------
(* The signal generator, one loop pass per step, followed by the           *)
(* performance calculator on the signals it returned                       *)

InitStrategy ==
    /\ data \in SmallSeries
    /\ short_period \in 0..MaxPeriod
    /\ long_period \in 0..MaxPeriod
    /\ initial_capital \in Capitals
    /\ pc = "strategy_call"
    /\ i = 0
    /\ position_open = FALSE
    /\ trades = <<>>
    /\ raised = "none"
    /\ perf = NoPerf
    /\ report = NoReport
    /\ opt = NoOpt
    /\ strategy_name = "moving_average_crossover"
    /\ backtest = NoBacktest
    /\ full_data = NoSeries
    /\ train_split = <<1, 1>>
    /\ train_data = NoSeries
    /\ validation_data = NoSeries

\* StrategyEnter with short_period where the code has long_period
StrategyEnterShortPeriod ==
    /\ pc = "strategy_call"
    /\ IF Len(data) < short_period
       THEN /\ pc' = "strategy_returned"
            /\ i' = i
       ELSE /\ pc' = "strategy_loop"
            /\ i' = short_period
    /\ trades' = <<>>
    /\ position_open' = FALSE
    /\ UNCHANGED <<engineVars, data, short_period, long_period, raised,
                   initial_capital, strategy_name, backtest, perf, report,
                   opt>>

\* the early return, or the locals before the loop
StrategyEnter ==
    /\ pc = "strategy_call"
    /\ IF InsufficientData(data, long_period)
       THEN /\ pc' = "strategy_returned"
            /\ i' = i
       ELSE /\ pc' = "strategy_loop"
            /\ i' = long_period
    /\ trades' = <<>>
    /\ position_open' = FALSE
    /\ UNCHANGED <<engineVars, data, short_period, long_period, raised,
                   initial_capital, strategy_name, backtest, perf, report,
                   opt>>

\* one pass of the loop body
StrategyStep ==
    /\ pc = "strategy_loop"
    /\ i < Len(data)
    /\ LET r == StrategyIteration(data, short_period, long_period, i,
                                  position_open, trades)
       IN  IF r.raised # "none"
           THEN /\ pc' = "strategy_raised"
                /\ raised' = r.raised
                /\ UNCHANGED <<i, position_open, trades>>
           ELSE /\ i' = i + 1
                /\ position_open' = r.position_open
                /\ trades' = r.trades
                /\ UNCHANGED <<pc, raised>>
    /\ UNCHANGED <<engineVars, data, short_period, long_period,
                   initial_capital, strategy_name, backtest, perf, report,
                   opt>>

\* the loop is exhausted: return trades
StrategyReturn ==
    /\ pc = "strategy_loop"
    /\ i >= Len(data)
    /\ pc' = "strategy_returned"
    /\ UNCHANGED <<engineVars, strategyVars, trades, raised,
                   initial_capital, strategy_name, backtest, perf, report,
                   opt>>

\* the caller hands the returned signals to calculate_performance
PerformanceOfSignals ==
    /\ pc = "strategy_returned"
    /\ report' = CalculatePerformance(trades, initial_capital)
    /\ pc' = "reported"
    /\ UNCHANGED <<engineVars, strategyVars, trades, raised,
                   initial_capital, strategy_name, backtest, perf, opt>>

NextStrategy ==
    \/ StrategyEnter
    \/ StrategyStep
    \/ StrategyReturn
    \/ PerformanceOfSignals

SpecStrategy == InitStrategy /\ [][NextStrategy]_vars

-----------------------------------------------------------------------------
(* Properties of the signal generator (SpecStrategy) *)

\* the loop passes already made are those at indexes long_period..i-1
InStrategy == pc \in {"strategy_loop", "strategy_returned", "reported"}
PassesMade == IF pc = "strategy_call" THEN {} ELSE long_period..(i - 1)

\* the signals emitted so far at bars before index k, and at index k
SignalsBefore(k) ==
    Cardinality({n \in 1..Len(trades) : trades[n].date < data[k + 1].date})
EmittedAt(k, action) ==
    \E n \in 1..Len(trades) :
        trades[n].date = data[k + 1].date /\ trades[n].action = action

\* the sum of the closes at positions k-p .. k-1 of the series
RECURSIVE SumAtPositions(_, _, _)
SumAtPositions(s, lo, hi) ==
    IF lo >= hi THEN 0 ELSE s[lo + 1].close + SumAtPositions(s, lo + 1, hi)

\* ma_short(k) <= ma_long(k), < and their converses, for ma_p(k) the mean of
\* the closes at positions k-p .. k-1
MaShortLe(k) ==
    SumAtPositions(data, k - short_period, k) * long_period
        <= SumAtPositions(data, k - long_period, k) * short_period
MaShortLt(k) ==
    SumAtPositions(data, k - short_period, k) * long_period
        < SumAtPositions(data, k - long_period, k) * short_period
MaShortGe(k) == ~MaShortLt(k)
MaShortGt(k) == ~MaShortLe(k)

\* C1: with 0 < short_period < long_period, every loop pass at index k reads,
\* for the previous-bar averages, only the p bars immediately preceding bar
\* k-1 (positions k-1-p .. k-2), and it emits a BUY exactly when
\* short_ma(k-1) <= long_ma(k-1), short_ma(k) > long_ma(k) and no position is
\* open, a SELL exactly when short_ma(k-1) >= long_ma(k-1),
\* short_ma(k) < long_ma(k) and a position is open, and nothing otherwise.
C1_CrossoverRule ==
    (InStrategy /\ 0 < short_period /\ short_period < long_period) =>
        \A k \in PassesMade :
            /\ WindowPositions(data, k - short_period - 1, k - 1)
                   = (k - 1 - short_period)..(k - 2)
            /\ WindowPositions(data, k - long_period - 1, k - 1)
                   = (k - 1 - long_period)..(k - 2)
            /\ (k - 1 - long_period)..(k - 2) \subseteq 0..(k - 2)
            /\ EmittedAt(k, "BUY") <=>
                   (MaShortLe(k - 1) /\ MaShortGt(k)
                    /\ SignalsBefore(k) % 2 = 0)
            /\ EmittedAt(k, "SELL") <=>
                   (MaShortGe(k - 1) /\ MaShortLt(k)
                    /\ SignalsBefore(k) % 2 = 1)

BuysIn(n) == Cardinality({k \in 1..n : trades[k].action = "BUY"})
SellsIn(n) == Cardinality({k \in 1..n : trades[k].action = "SELL"})

\* C2: the signals of the generator alternate BUY, SELL, BUY, ... starting
\* with BUY: no two consecutive signals have the same action, and after every
\* prefix the number of BUYs minus the number of SELLs is 0 or 1.
C2_SignalsAlternate ==
    /\ Len(trades) > 0 => trades[1].action = "BUY"
    /\ \A k \in 1..(Len(trades) - 1) : trades[k].action # trades[k + 1].action
    /\ \A n \in 0..Len(trades) : BuysIn(n) - SellsIn(n) \in {0, 1}

\* a returned sequence in which a BUY follows a SELL
C2_Witness ==
    /\ pc = "strategy_returned"
    /\ Len(trades) >= 3

\* C10: a series shorter than long_period yields, for any short_period and
\* long_period, an empty signal sequence and no exception; the performance
\* calculator turns it into the zero-activity report.
C10_ShortSeriesNoSignals ==
    Len(data) < long_period =>
        /\ pc \in {"strategy_call", "strategy_returned", "reported"}
        /\ raised = "none"
        /\ trades = <<>>
        /\ pc = "reported" =>
               /\ report.total_trades = 0
               /\ report.win_rate = <<0, 1>>
               /\ report.total_return = 0
               /\ report.final_capital = 100 * initial_capital

\* the report on a non-empty series one bar shorter than long_period
C10_Witness ==
    /\ pc = "reported"
    /\ Len(data) > 0
    /\ Len(data) = long_period - 1
    /\ short_period > 0

-----------------------------------------------------------------------------
(* The performance calculator on an arbitrary signal list, one loop pass   *)
(* per step                                                                *)

\* every signal list of at most MaxSignals signals; the calculator reads
\* only the action and the price of a signal
SignalLists ==
    UNION {[1..n -> [action : {"BUY", "SELL"}, price : 1..MaxPrice]] :
               n \in 0..MaxSignals}

InitPerf ==
    /\ trades \in SignalLists
    /\ initial_capital \in Capitals
    /\ pc = "perf_call"
    /\ perf = NoPerf
    /\ report = NoReport
    /\ raised = "none"
    /\ data = NoSeries
    /\ short_period = 0
    /\ long_period = 0
    /\ i = 0
    /\ position_open = FALSE
    /\ opt = NoOpt
    /\ strategy_name = "moving_average_crossover"
    /\ backtest = NoBacktest
    /\ full_data = NoSeries
    /\ train_split = <<1, 1>>
    /\ train_data = NoSeries
    /\ validation_data = NoSeries

\* the early return, or the locals before the loop
PerfEnter ==
    /\ pc = "perf_call"
    /\ IF FewerThanTwo(trades)
       THEN /\ report' = ZeroActivityReport(initial_capital)
            /\ pc' = "perf_done"
            /\ perf' = perf
       ELSE /\ perf' = [st |-> PerfLocals(initial_capital), k |-> 1]
            /\ pc' = "perf_loop"
            /\ report' = report
    /\ UNCHANGED <<engineVars, strategyVars, trades, raised,
                   initial_capital, strategy_name, backtest, opt>>

\* one pass of the loop body
PerfStep ==
    /\ pc = "perf_loop"
    /\ perf.k <= Len(trades)
    /\ perf' = [st |-> PerfIteration(perf.st, trades[perf.k], initial_capital),
                k |-> perf.k + 1]
    /\ UNCHANGED <<engineVars, strategyVars, pc, trades, raised,
                   initial_capital, strategy_name, backtest, report, opt>>

\* the loop is exhausted: mark an open position and return the report
PerfReturn ==
    /\ pc = "perf_loop"
    /\ perf.k > Len(trades)
    /\ report' = PerfReport(perf.st, trades, initial_capital)
    /\ pc' = "perf_done"
    /\ UNCHANGED <<engineVars, strategyVars, trades, raised,
                   initial_capital, strategy_name, backtest, perf, opt>>

NextPerf ==
    \/ PerfEnter
    \/ PerfStep
    \/ PerfReturn

SpecPerf == InitPerf /\ [][NextPerf]_vars

-----------------------------------------------------------------------------
(* Properties of the performance calculator (SpecPerf) *)

\* C4: on a signal list of length 0 or 1, whatever the action of the single
\* signal, the calculator returns without an error total_trades = 0,
\* win_rate = 0.0, total_return = 0.0 and final_capital = initial_capital.
C4_ZeroActivity ==
    Len(trades) < 2 =>
        /\ pc \in {"perf_call", "perf_done"}
        /\ raised = "none"
        /\ pc = "perf_done" =>
               /\ report.total_trades = 0
               /\ report.win_rate = <<0, 1>>
               /\ report.total_return = 0
               /\ report.final_capital = 100 * initial_capital

\* the report on a single BUY
C4_Witness ==
    /\ pc = "perf_done"
    /\ Len(trades) = 1
    /\ trades[1].action = "BUY"

\* the list [BUY at P1, SELL at P2]
IsRoundTrip ==
    /\ Len(trades) = 2
    /\ trades[1].action = "BUY"
    /\ trades[2].action = "SELL"

\* C5: for [BUY at P1, SELL at P2] and capital C, total_return is
\* (P2/P1 - 1) * 100 rounded to 2 decimals, and final_capital is C * P2 / P1
\* whenever that amount is a whole number of hundredths.
C5_RoundTrip ==
    (pc = "perf_done" /\ IsRoundTrip) =>
        LET P1 == trades[1].price
            P2 == trades[2].price
        IN  /\ report.total_return = Round2(<<(P2 - P1) * 100, P1>>)
            /\ (100 * initial_capital * P2) % P1 = 0 =>
                   report.final_capital = (100 * initial_capital * P2) \div P1
            /\ P2 % P1 = 0 =>
                   report.total_return = ((P2 \div P1) - 1) * 100 * 100

\* the report on a round trip with a gain and a whole final amount
C5_Witness ==
    /\ pc = "perf_done"
    /\ IsRoundTrip
    /\ trades[1].price > 1
    /\ trades[2].price > trades[1].price
    /\ (100 * initial_capital * trades[2].price) % trades[1].price = 0

RECURSIVE NumberOfBuys(_)
NumberOfBuys(sigs) ==
    IF sigs = <<>> THEN 0
    ELSE (IF Head(sigs).action = "BUY" THEN 1 ELSE 0) + NumberOfBuys(Tail(sigs))

\* C6 as stated: for every signal list, those of length 0 and 1 included,
\* total_trades is the number of BUY signals in the list.
C6_TotalTradesCountsBuys ==
    pc = "perf_done" => report.total_trades = NumberOfBuys(trades)

\* C6 as amended: for a list of at least 2 signals total_trades is the number
\* of its BUY signals; for a list of length 0 or 1 total_trades is 0, also
\* when the single signal is a BUY.
C6_TotalTradesAmended ==
    pc = "perf_done" =>
        report.total_trades =
            IF Len(trades) >= 2 THEN NumberOfBuys(trades) ELSE 0

\* a report on a list with two BUYs and a SELL
C6_Witness ==
    /\ pc = "perf_done"
    /\ Len(trades) = 3
    /\ NumberOfBuys(trades) = 2

-----------------------------------------------------------------------------
(* Construction of the engine *)

\* split fractions in (0, 1] for which len(data) * train_split is computed
\* without rounding error for the series lengths of the model
SplitFractions == {<<1, 4>>, <<1, 2>>, <<3, 4>>, <<4, 5>>, <<1, 1>>}

InitEngine ==
    /\ data \in SmallSeries
    /\ train_split \in SplitFractions
    /\ pc = "engine_new"
    /\ full_data = NoSeries
    /\ train_data = NoSeries
    /\ validation_data = NoSeries
    /\ short_period = 0
    /\ long_period = 0
    /\ i = 0
    /\ position_open = FALSE
    /\ trades = <<>>
    /\ raised = "none"
    /\ initial_capital = 10000
    /\ perf = NoPerf
    /\ report = NoReport
    /\ opt = NoOpt
    /\ strategy_name = "moving_average_crossover"
    /\ backtest = NoBacktest

\* BacktestEngine(data, train_split)
EngineInit ==
    /\ pc = "engine_new"
    /\ full_data' = data
    /\ train_data' = TrainSlice(data, SplitIndex(Len(data), train_split))
    /\ validation_data' =
           ValidationSlice(data, SplitIndex(Len(data), train_split))
    /\ pc' = "engine_ready"
    /\ UNCHANGED <<train_split, strategyVars, trades, raised,
                   initial_capital, strategy_name, backtest, perf, report,
                   opt>>

NextEngine == EngineInit

SpecEngine == InitEngine /\ [][NextEngine]_vars

-----------------------------------------------------------------------------
(* Properties of the split (SpecEngine) *)

\* floor(n * f) for the fraction f
FloorOfProduct(n, f) ==
    CHOOSE k \in 0..n : k * f[2] <= n * f[1] /\ n * f[1] < (k + 1) * f[2]

-----------------------------------------------------------------------------
(* get_data_summary *)

\* x[0]["date"] if x else None, and x[-1]["date"] if x else None: the date in
\* a one-element tuple, None as the empty tuple
FirstDate(s) == IF s # <<>> THEN <<s[1].date>> ELSE <<>>
\* LastDate giving the date of the first bar
LastDateIsFirst(s) == IF s # <<>> THEN <<s[1].date>> ELSE <<>>
LastDate(s) == IF s # <<>> THEN <<s[Len(s)].date>> ELSE <<>>

GetDataSummary(full, train, validation, f) ==
    [total_data_points |-> Len(full),
     train_data_points |-> Len(train),
     validation_data_points |-> Len(validation),
     train_period |-> [start |-> FirstDate(train), end |-> LastDate(train)],
     validation_period |->
         [start |-> FirstDate(validation), end |-> LastDate(validation)],
     train_split_percentage |-> Rat(f[1] * 100, f[2])]

-----------------------------------------------------------------------------
(* optimize_strategy.find_optimal_params *)

ShortGrid == <<5, 10, 15, 20>>
LongGrid == <<20, 30, 50, 100>>

\* float('-inf'): below every total_return, which is at least -100.00
NegInf == -1000000

None == [none |-> TRUE]

\* SkipPair letting short = long through
SkipPairStrict(short, long) == short > long

\* if short >= long: continue
SkipPair(short, long) == short >= long

\* Improves with >= for >
ImprovesOrTies(ret, best) == ret >= best

\* performance["total_return"] > best_return
Improves(ret, best) == ret > best

\* OptLocals with best_return starting at 0
OptLocalsBestZero(run, first) ==
    [short_idx |-> 1, long_idx |-> 1, best_params |-> None,
     best_return |-> 0, results |-> <<>>, out |-> None,
     run |-> run, first |-> first]

\* the locals before the grid search; run and first tell a second request
\* from the first and keep what the first one saw and returned
OptLocals(run, first) ==
    [short_idx |-> 1, long_idx |-> 1, best_params |-> None,
     best_return |-> NegInf, results |-> <<>>, out |-> None,
     run |-> run, first |-> first]

\* the next position of the two nested loops
NextLongIdx(o) == IF o.long_idx < Len(LongGrid) THEN o.long_idx + 1 ELSE 1
NextShortIdx(o) ==
    IF o.long_idx < Len(LongGrid) THEN o.short_idx ELSE o.short_idx + 1

\* the record appended to results for one pair
OptResult(short, long, performance) ==
    [short_period |-> short, long_period |-> long,
     return |-> performance.total_return,
     win_rate |-> performance.win_rate,
     total_trades |-> performance.total_trades]

\* sorted(results, key=lambda x: x["return"], reverse=True): a stable sort,
\* records of equal return keep their order
\* InsertByReturn putting the record at the end, whatever its return
InsertAtEnd(sorted, x) == Append(sorted, x)

\* InsertByReturn putting a record before those of equal return
RECURSIVE InsertByReturnTiesFirst(_, _)
InsertByReturnTiesFirst(sorted, x) ==
    IF sorted = <<>> THEN <<x>>
    ELSE IF Head(sorted).return > x.return
         THEN <<Head(sorted)>> \o InsertByReturnTiesFirst(Tail(sorted), x)
         ELSE <<x>> \o sorted

RECURSIVE InsertByReturn(_, _)
InsertByReturn(sorted, x) ==
    IF sorted = <<>> THEN <<x>>
    ELSE IF Head(sorted).return >= x.return
         THEN <<Head(sorted)>> \o InsertByReturn(Tail(sorted), x)
         ELSE <<x>> \o sorted

RECURSIVE SortedByReturn(_)
SortedByReturn(rs) ==
    IF rs = <<>> THEN <<>>
    ELSE InsertByReturn(SortedByReturn(SubSeq(rs, 1, Len(rs) - 1)),
                        rs[Len(rs)])

-----------------------------------------------------------------------------
(* The optimizer, one grid pair per step; a second request may follow on a *)
(* file that differs from the first in its validation bars only            *)

\* the closes of the optimizer's series
OptCloses == {1, 2}

\* square waves of OptBars bars: lo bars at close 1, then hi bars at close 2,
\* and so on
SquareWave(lo, hi) ==
    MkSeries([k \in 1..OptBars |-> IF (k - 1) % (lo + hi) < lo THEN 1 ELSE 2])

\* the files the optimizer is run on: the square waves and the empty file
OptSeries ==
    {<<>>} \cup {SquareWave(lo, hi) : lo \in 1..OptRun, hi \in 1..OptRun}

OptFractions == {<<1, 2>>, <<4, 5>>, <<1, 1>>}

InitOpt ==
    /\ data \in OptSeries
    /\ train_split \in OptFractions
    /\ initial_capital = 10000
    /\ pc = "opt_call"
    /\ opt = [OptLocals(1, None) EXCEPT !.short_idx = 0, !.long_idx = 0]
    /\ full_data = NoSeries
    /\ train_data = NoSeries
    /\ validation_data = NoSeries
    /\ short_period = 0
    /\ long_period = 0
    /\ i = 0
    /\ position_open = FALSE
    /\ trades = <<>>
    /\ raised = "none"
    /\ perf = NoPerf
    /\ report = NoReport
    /\ strategy_name = "moving_average_crossover"
    /\ backtest = NoBacktest

\* the data engine.moving_average_crossover_strategy is given
OptInputDataFull == full_data
OptInputData == train_data

\* no data: the error value; otherwise the engine and the locals
OptEnter ==
    /\ pc = "opt_call"
    /\ IF data = <<>>
       THEN /\ opt' = [opt EXCEPT !.out = [error |-> "No data found in file"]]
            /\ pc' = "opt_done"
            /\ UNCHANGED <<full_data, train_data, validation_data>>
       ELSE /\ full_data' = data
            /\ train_data' =
                   TrainSlice(data, SplitIndex(Len(data), train_split))
            /\ validation_data' =
                   ValidationSlice(data, SplitIndex(Len(data), train_split))
            /\ opt' = OptLocals(opt.run, opt.first)
            /\ pc' = "opt_loop"
    /\ UNCHANGED <<train_split, strategyVars, trades, raised,
                   initial_capital, strategy_name, backtest, perf, report>>

\* a grid pair with short >= long: continue
OptSkip ==
    /\ pc = "opt_loop"
    /\ opt.short_idx <= Len(ShortGrid)
    /\ SkipPair(ShortGrid[opt.short_idx], LongGrid[opt.long_idx])
    /\ opt' = [opt EXCEPT !.short_idx = NextShortIdx(opt),
                          !.long_idx = NextLongIdx(opt)]
    /\ UNCHANGED <<engineVars, strategyVars, pc, trades, raised,
                   initial_capital, strategy_name, backtest, perf, report>>

\* a grid pair with short < long: signals, performance, result, best so far
OptEvaluate ==
    /\ pc = "opt_loop"
    /\ opt.short_idx <= Len(ShortGrid)
    /\ ~SkipPair(ShortGrid[opt.short_idx], LongGrid[opt.long_idx])
    /\ \E short \in {ShortGrid[opt.short_idx]},
          long \in {LongGrid[opt.long_idx]} :
       \E r \in {Strategy(OptInputData, short, long)} :
       \E performance \in {CalculatePerformance(r.trades, initial_capital)} :
           /\ short_period' = short
           /\ long_period' = long
           /\ IF r.raised # "none"
              THEN /\ raised' = r.raised
                   /\ pc' = "opt_raised"
                   /\ UNCHANGED <<trades, report, opt>>
              ELSE /\ trades' = r.trades
                   /\ report' = performance
                   /\ opt' =
                        [opt EXCEPT
                           !.results =
                               Append(@, OptResult(short, long, performance)),
                           !.best_return =
                               IF Improves(performance.total_return, @)
                               THEN performance.total_return ELSE @,
                           !.best_params =
                               IF Improves(performance.total_return,
                                           opt.best_return)
                               THEN [short_period |-> short,
                                     long_period |-> long,
                                     performance |-> performance]
                               ELSE @,
                           !.short_idx = NextShortIdx(opt),
                           !.long_idx = NextLongIdx(opt)]
                   /\ UNCHANGED <<pc, raised>>
    /\ UNCHANGED <<engineVars, data, i, position_open, initial_capital,
                   strategy_name, backtest, perf>>

\* the grid is exhausted: the returned dict
OptReturn ==
    /\ pc = "opt_loop"
    /\ opt.short_idx > Len(ShortGrid)
    /\ opt' = [opt EXCEPT !.out =
                  [best_parameters |-> opt.best_params,
                   all_results |-> SortedByReturn(opt.results),
                   data_summary |->
                       GetDataSummary(full_data, train_data,
                                      validation_data, train_split)]]
    /\ pc' = "opt_done"
    /\ UNCHANGED <<engineVars, strategyVars, trades, raised,
                   initial_capital, strategy_name, backtest, perf, report>>

\* a second request, on a file with the same training bars and other closes
\* in the validation bars
OptOtherValidation ==
    /\ pc = "opt_done"
    /\ opt.run = 1
    /\ validation_data # <<>>
    /\ \E c \in OptCloses :
           data' = [k \in 1..Len(data) |->
                       IF k <= Len(train_data) THEN data[k]
                       ELSE [date |-> data[k].date, close |-> c]]
    /\ opt' = [OptLocals(2, [out |-> opt.out, train_data |-> train_data,
                             validation_data |-> validation_data])
                  EXCEPT !.short_idx = 0, !.long_idx = 0]
    /\ pc' = "opt_call"
    /\ UNCHANGED <<engineVars, short_period, long_period, i, position_open,
                   trades, raised, initial_capital, strategy_name, backtest,
                   perf, report>>

NextOpt ==
    \/ OptEnter
    \/ OptSkip
    \/ OptEvaluate
    \/ OptReturn
    \/ OptOtherValidation

SpecOpt == InitOpt /\ [][NextOpt]_vars

-----------------------------------------------------------------------------
(* Properties of the optimizer (SpecOpt) *)

\* the optimizer has returned its result dict (not the no-data error)
OptDone == pc = "opt_done" /\ data # <<>>

\* the grid pairs with short < long
ValidPairs ==
    {p \in {<<ShortGrid[a], LongGrid[b]>> :
                a \in 1..Len(ShortGrid), b \in 1..Len(LongGrid)} :
         p[1] < p[2]}

PairOf(r) == <<r.short_period, r.long_period>>

\* pair p comes before pair q in the iteration order: short in the outer
\* loop, long in the inner loop
Before(p, q) == p[1] < q[1] \/ (p[1] = q[1] /\ p[2] < q[2])

\* C7: best_parameters is the pair whose training total_return is >= that of
\* every evaluated pair and, among the pairs that tie for the maximum, the
\* one met first in the iteration order.
C7_BestIsFirstMaximum ==
    OptDone =>
        LET rs == opt.results
            bp == opt.out.best_parameters
        IN  /\ bp # None
            /\ \A j, k \in 1..Len(rs) :
                   j < k => Before(PairOf(rs[j]), PairOf(rs[k]))
            /\ \E k \in 1..Len(rs) :
                   /\ PairOf(rs[k]) = PairOf(bp)
                   /\ rs[k].return = bp.performance.total_return
                   /\ \A j \in 1..Len(rs) : rs[j].return <= rs[k].return
                   /\ \A j \in 1..(k - 1) : rs[j].return < rs[k].return

\* a result whose best pair is not the first pair of the grid and ties with a
\* pair met later
C7_Witness ==
    /\ OptDone
    /\ PairOf(opt.out.best_parameters) # <<5, 20>>
    /\ \E j \in 1..Len(opt.results) :
           /\ Before(PairOf(opt.out.best_parameters), PairOf(opt.results[j]))
           /\ opt.results[j].return =
                  opt.out.best_parameters.performance.total_return

\* C8: the pairs evaluated in one run are exactly the grid pairs with
\* short < long, each once; no pair with short >= long is passed to the
\* signal generator or appears in all_results.
C8_OnlyValidPairs ==
    /\ pc \in {"opt_loop", "opt_done"} =>
           /\ short_period # 0 => short_period < long_period
           /\ \A k \in 1..Len(opt.results) :
                  PairOf(opt.results[k]) \in ValidPairs
           /\ \A j, k \in 1..Len(opt.results) :
                  j # k => PairOf(opt.results[j]) # PairOf(opt.results[k])
    /\ OptDone =>
           /\ {PairOf(opt.results[k]) : k \in 1..Len(opt.results)} = ValidPairs
           /\ Len(opt.results) = Cardinality(ValidPairs)
           /\ Len(opt.out.all_results) = Cardinality(ValidPairs)
           /\ {PairOf(opt.out.all_results[k]) :
                   k \in 1..Len(opt.out.all_results)} = ValidPairs

\* a finished run of 15 evaluations, one of them with trades
C8_Witness ==
    /\ OptDone
    /\ Len(opt.results) = 15
    /\ \E k \in 1..Len(opt.results) : opt.results[k].total_trades > 0

\* C9: a second run on a series of the same length, with the same split
\* fraction and the same training slice but other validation bars, returns
\* the same best_parameters and the same all_results as the first.
C9_ValidationBarsIgnored ==
    (OptDone /\ opt.run = 2) =>
        /\ Len(full_data) = Len(opt.first.train_data)
                                + Len(opt.first.validation_data)
        /\ train_data = opt.first.train_data
        /\ opt.out.best_parameters = opt.first.out.best_parameters
        /\ opt.out.all_results = opt.first.out.all_results

\* a second run with other validation bars and a pair with a non-zero return
C9_Witness ==
    /\ OptDone
    /\ opt.run = 2
    /\ validation_data # opt.first.validation_data
    /\ \E k \in 1..Len(opt.out.all_results) :
           opt.out.all_results[k].return # 0

-----------------------------------------------------------------------------
(* The signal generator and the calculator on rising series: every series  *)
(* of strictly increasing closes drawn from 1..MaxRise, and the series of  *)
(* 40 closes 100, 101, ..., 139 with the periods 5 and 10                  *)

\* the closes of a set c of integers in ascending order
RECURSIVE Ascending(_)
Ascending(c) ==
    IF c = {} THEN <<>>
    ELSE LET m == CHOOSE x \in c : \A y \in c : y <= x
         IN  Append(Ascending(c \ {m}), m)

RisingSeries == {MkSeries(Ascending(c)) : c \in SUBSET (1..MaxRise)}

\* day i -> close = 100 + i, i = 0..39
LinearSeries == MkSeries([k \in 1..40 |-> 100 + (k - 1)])

\* the period pairs of the rising runs
RisingPeriods == ((0..MaxPeriod) \X (0..MaxPeriod)) \cup {<<5, 10>>}

InitRising ==
    /\ data \in RisingSeries \cup {LinearSeries}
    /\ \E p \in RisingPeriods : short_period = p[1] /\ long_period = p[2]
    /\ initial_capital \in Capitals
    /\ pc = "strategy_call"
    /\ i = 0
    /\ position_open = FALSE
    /\ trades = <<>>
    /\ raised = "none"
    /\ perf = NoPerf
    /\ report = NoReport
    /\ opt = NoOpt
    /\ strategy_name = "moving_average_crossover"
    /\ backtest = NoBacktest
    /\ full_data = NoSeries
    /\ train_split = <<1, 1>>
    /\ train_data = NoSeries
    /\ validation_data = NoSeries

SpecRising == InitRising /\ [][NextStrategy]_vars

-----------------------------------------------------------------------------
(* Properties of the signal generator on rising series (SpecRising) *)

StrictlyIncreasing(s) ==
    \A k \in 1..(Len(s) - 1) : s[k].close < s[k + 1].close

\* C11: on a series of strictly increasing closes, with
\* short_period < long_period, the signals emitted hold at most one BUY and
\* no SELL.
C11_RisingAtMostOneBuy ==
    (StrictlyIncreasing(data) /\ short_period < long_period) =>
        /\ BuysIn(Len(trades)) <= 1
        /\ SellsIn(Len(trades)) = 0

\* a returned sequence with its BUY, made after the position was opened, and
\* a returned empty sequence after at least two loop passes
C11_Witness ==
    /\ pc = "strategy_returned"
    /\ StrictlyIncreasing(data)
    /\ 0 < short_period /\ short_period < long_period
    /\ Len(data) >= long_period + 2
    /\ Len(trades) = 1
    /\ trades[1].date < data[Len(data)].date

\* the scenario of 40 linearly rising closes with the periods 5 and 10
InScenario ==
    /\ data = LinearSeries
    /\ short_period = 5
    /\ long_period = 10

\* C13: on the 40 bars with close = 100 + i, short_period = 5 and
\* long_period = 10, the generator returns exactly one signal, a BUY at the
\* bar of index 10 (close 110), and no SELL.
C13_ScenarioOneBuy ==
    (InScenario /\ pc \in {"strategy_returned", "reported"}) =>
        /\ raised = "none"
        /\ Len(trades) = 1
        /\ trades[1].action = "BUY"
        /\ trades[1].date = data[10 + 1].date
        /\ trades[1].price = 110
        /\ SellsIn(Len(trades)) = 0

\* the scenario's generator has returned
C13_Witness ==
    /\ InScenario
    /\ pc = "strategy_returned"
    /\ i = Len(data)
    /\ position_open

\* C14 as stated: in the scenario with initial_capital = 10000 the report
\* shows total_trades = 1, completed_trades = 0, win_rate = 0.0 and
\* final_capital = the position bought at 110 marked at the last close 139.
C14_ScenarioReportMarked ==
    (InScenario /\ initial_capital = 10000 /\ pc = "reported") =>
        /\ report.total_trades = 1
        /\ "completed_trades" \in DOMAIN report
        /\ report.completed_trades = 0
        /\ report.win_rate = <<0, 1>>
        /\ report.final_capital
               = Round2(RatMul(Rat(10000, 110), <<139, 1>>))

\* C14 as amended: in the scenario with initial_capital = 10000 the single
\* BUY makes the calculator return its zero-activity report: total_trades
\* = 0, win_rate = 0.0, total_return = 0.0, final_capital = 10000.00, with
\* no completed_trades field; the open position is not marked.
C14_ScenarioReportZero ==
    (InScenario /\ initial_capital = 10000 /\ pc = "reported") =>
        /\ Len(trades) = 1
        /\ report.total_trades = 0
        /\ report.win_rate = <<0, 1>>
        /\ report.total_return = 0
        /\ report.final_capital = 100 * 10000
        /\ "completed_trades" \notin DOMAIN report

\* the scenario's report
C14_Witness ==
    /\ InScenario
    /\ initial_capital = 10000
    /\ pc = "reported"
    /\ trades # <<>>

-----------------------------------------------------------------------------
(* Further properties of the signal generator (SpecStrategy) *)

\* C16: for every bar series and every pair of positive periods, also with
\* short_period >= long_period, the generator raises no error.
C16_AnyPositivePairAccepted ==
    (short_period > 0 /\ long_period > 0) =>
        /\ raised = "none"
        /\ pc # "strategy_raised"

-----------------------------------------------------------------------------
(* Further properties of the performance calculator (SpecPerf) *)

ReportFields ==
    {"total_trades", "completed_trades", "profitable_trades",
     "losing_trades", "win_rate", "initial_capital", "final_capital",
     "total_return", "total_return_dollars"}

\* C15: every report the calculator returns, those for the empty and the
\* single-signal list included, has the same nine fields.
C15_SameFields ==
    pc = "perf_done" => DOMAIN report = ReportFields

\* the signal list ends with a BUY
EndsWithBuy ==
    /\ Len(trades) >= 2
    /\ trades[Len(trades)].action = "BUY"

\* C17: when a list of at least 2 signals ends with a BUY and shares are
\* held after the loop, final_capital is those shares times the price of the
\* last signal, rounded to 2 decimals.
C17_OpenPositionAtLastSignal ==
    (pc = "perf_done" /\ EndsWithBuy /\ perf.st.shares[1] > 0) =>
        /\ perf.st.capital = <<0, 1>>
        /\ report.final_capital =
               Round2(RatMul(perf.st.shares,
                             <<trades[Len(trades)].price, 1>>))
        /\ report.total_return_dollars =
               report.final_capital - 100 * initial_capital

\* a report on [BUY, SELL, BUY] with a gain, the position still open
C17_Witness ==
    /\ pc = "perf_done"
    /\ Len(trades) = 3
    /\ EndsWithBuy
    /\ trades[1].action = "BUY" /\ trades[2].action = "SELL"
    /\ trades[2].price > trades[1].price
    /\ perf.st.shares[1] > 0
    /\ report.final_capital > 100 * initial_capital

\* the pass about to be made handles a SELL
AtSell ==
    /\ pc = "perf_loop"
    /\ perf.k <= Len(trades)
    /\ trades[perf.k].action = "SELL"

\* C18: a pass on a SELL with shares held turns them into capital
\* shares * price and adds one to profitable_trades when that capital is
\* strictly greater than initial_capital, one to losing_trades otherwise; a
\* pass on a SELL with no shares held leaves capital, shares and both
\* counters as they are.
C18_SellClassification ==
    [][AtSell =>
         LET st == perf.st
             sale == RatMul(st.shares, <<trades[perf.k].price, 1>>)
         IN  IF st.shares[1] > 0
             THEN /\ perf'.st.capital = sale
                  /\ perf'.st.shares = <<0, 1>>
                  /\ IF sale[1] > initial_capital * sale[2]
                     THEN /\ perf'.st.profitable_trades
                                 = st.profitable_trades + 1
                          /\ perf'.st.losing_trades = st.losing_trades
                     ELSE /\ perf'.st.profitable_trades
                                 = st.profitable_trades
                          /\ perf'.st.losing_trades = st.losing_trades + 1
             ELSE perf'.st = st]_vars

\* two round trips, the second sold above its own BUY price but not above
\* initial_capital, both counted as losing; the list ends with a SELL made
\* while no shares are held
C18_Witness ==
    /\ pc = "perf_done"
    /\ Len(trades) = 4
    /\ trades[1].action = "BUY" /\ trades[2].action = "SELL"
    /\ trades[3].action = "BUY" /\ trades[4].action = "SELL"
    /\ trades[2].price < trades[1].price
    /\ trades[4].price > trades[3].price
    /\ report.losing_trades = 2
    /\ report.profitable_trades = 0

\* C19: for a list of at least 2 signals, completed_trades =
\* profitable_trades + losing_trades, win_rate = profitable_trades /
\* completed_trades * 100 when completed_trades > 0 and 0.0 otherwise, and
\* 0 <= win_rate <= 100.
C19_WinRate ==
    (pc = "perf_done" /\ Len(trades) >= 2) =>
        /\ report.profitable_trades = perf.st.profitable_trades
        /\ report.losing_trades = perf.st.losing_trades
        /\ report.completed_trades
               = report.profitable_trades + report.losing_trades
        /\ report.completed_trades > 0 =>
               report.win_rate = Rat(report.profitable_trades * 100,
                                     report.completed_trades)
        /\ report.completed_trades = 0 => report.win_rate = <<0, 1>>
        /\ 0 <= report.win_rate[1]
        /\ report.win_rate[1] <= 100 * report.win_rate[2]

\* a report with one profitable and one losing round trip
C19_Witness ==
    /\ pc = "perf_done"
    /\ report.profitable_trades = 1
    /\ report.losing_trades = 1
    /\ report.win_rate = <<50, 1>>

-----------------------------------------------------------------------------
(* BacktestEngine.run_backtest *)

\* UnknownStrategy taking every name but the empty one as known
UnknownStrategyEmptyOnly(name) == name = ""

\* the else branch of: if strategy_name == "moving_average_crossover"
UnknownStrategy(name) == name # "moving_average_crossover"

\* {"error": f"Unknown strategy: {strategy_name}"}
UnknownStrategyError(name) == [error |-> "Unknown strategy: " \o name]

\* the locals before the call; run and first tell a second request from the
\* first and keep what the first one saw and returned
BacktestLocals(run, first) ==
    [train_trades |-> None, validation_trades |-> None,
     train_performance |-> None, validation_performance |-> None,
     out |-> None, run |-> run, first |-> first]

\* the returned dict; the returns are counts of hundredths, and so is their
\* rounded difference
BacktestResult(name, sp, lp, capital0, summary, tt, vt, tp, vp) ==
    [strategy |-> name,
     parameters |-> [short_period |-> sp, long_period |-> lp,
                     initial_capital |-> capital0],
     data_summary |-> summary,
     training_results |-> [trades |-> tt, performance |-> tp],
     validation_results |-> [trades |-> vt, performance |-> vp],
     summary |-> [train_return |-> tp.total_return,
                  validation_return |-> vp.total_return,
                  performance_difference |->
                      tp.total_return - vp.total_return]]

-----------------------------------------------------------------------------
(* A backtest request: the engine is built, then run_backtest is called; a *)
(* second request may follow on a series that differs from the first in    *)
(* one training bar                                                        *)

StrategyNames == {"moving_average_crossover", "rsi", ""}

\* the closes of the backtest series
BacktestCloses == {1, 2}

\* every series of at most BacktestBars bars with these closes
BacktestSeries ==
    {MkSeries(c) :
         c \in UNION {[1..n -> BacktestCloses] : n \in 0..BacktestBars}}

BacktestFractions == {<<1, 2>>, <<3, 4>>, <<1, 1>>}

InitBacktest ==
    /\ data \in BacktestSeries
    /\ train_split \in BacktestFractions
    /\ strategy_name \in StrategyNames
    /\ short_period \in 0..MaxPeriod
    /\ long_period \in 0..MaxPeriod
    /\ initial_capital = 10000
    /\ backtest = BacktestLocals(1, None)
    /\ pc = "engine_new"
    /\ full_data = NoSeries
    /\ train_data = NoSeries
    /\ validation_data = NoSeries
    /\ i = 0
    /\ position_open = FALSE
    /\ trades = <<>>
    /\ raised = "none"
    /\ perf = NoPerf
    /\ report = NoReport
    /\ opt = NoOpt

\* the data the second call of the generator is given
BacktestValidationInputFull == full_data
BacktestValidationInput == validation_data

\* engine.run_backtest(strategy_name, short_period, long_period,
\* initial_capital)
RunBacktest ==
    /\ pc = "engine_ready"
    /\ IF UnknownStrategy(strategy_name)
       THEN /\ backtest' =
                   [backtest EXCEPT
                      !.out = UnknownStrategyError(strategy_name)]
            /\ pc' = "backtest_done"
            /\ raised' = raised
       ELSE \E tr \in {Strategy(train_data, short_period, long_period)} :
            \E vr \in {IF tr.raised # "none" THEN tr
                       ELSE Strategy(BacktestValidationInput, short_period,
                                     long_period)} :
                IF vr.raised # "none"
                THEN /\ raised' = vr.raised
                     /\ pc' = "backtest_raised"
                     /\ backtest' = backtest
                ELSE \E tp \in {CalculatePerformance(tr.trades,
                                                     initial_capital)},
                        vp \in {CalculatePerformance(vr.trades,
                                                     initial_capital)} :
                     /\ backtest' =
                          [backtest EXCEPT
                             !.train_trades = tr.trades,
                             !.validation_trades = vr.trades,
                             !.train_performance = tp,
                             !.validation_performance = vp,
                             !.out = BacktestResult(
                                 strategy_name, short_period, long_period,
                                 initial_capital,
                                 GetDataSummary(full_data, train_data,
                                                validation_data, train_split),
                                 tr.trades, vr.trades, tp, vp)]
                     /\ pc' = "backtest_done"
                     /\ raised' = raised
    /\ UNCHANGED <<engineVars, strategyVars, trades, initial_capital,
                   strategy_name, perf, report, opt>>

\* a second request, on a series with another close in one training bar
BacktestOtherTraining ==
    /\ pc = "backtest_done"
    /\ backtest.run = 1
    /\ ~UnknownStrategy(strategy_name)
    /\ \E n \in 1..Len(train_data) :
       \E c \in BacktestCloses \ {data[n].close} :
           data' = [data EXCEPT ![n].close = c]
    /\ backtest' = BacktestLocals(2, [out |-> backtest.out,
                                      train_data |-> train_data,
                                      validation_data |-> validation_data])
    /\ pc' = "engine_new"
    /\ UNCHANGED <<engineVars, short_period, long_period, i, position_open,
                   trades, raised, initial_capital, strategy_name, perf,
                   report, opt>>

NextBacktest ==
    \/ EngineInit
    \/ RunBacktest
    \/ BacktestOtherTraining

SpecBacktest == InitBacktest /\ [][NextBacktest]_vars

-----------------------------------------------------------------------------
(* Properties of run_backtest (SpecBacktest) *)

\* the slices __init__ makes of the series of the current request
SliceOfTrain == TrainSlice(data, SplitIndex(Len(data), train_split))
SliceOfValidation == ValidationSlice(data, SplitIndex(Len(data), train_split))

\* C12: run_backtest with a strategy_name other than
\* "moving_average_crossover" returns {"error": "Unknown strategy: <name>"}
\* and nothing else: no exception, no signals and no performance computed,
\* and the three series of the engine as __init__ left them.
C12_UnknownStrategyIsError ==
    (strategy_name # "moving_average_crossover"
     /\ pc \notin {"engine_new", "engine_ready"}) =>
        /\ pc = "backtest_done"
        /\ raised = "none"
        /\ backtest.out = [error |-> "Unknown strategy: " \o strategy_name]
        /\ DOMAIN backtest.out = {"error"}
        /\ backtest.train_trades = None
        /\ backtest.validation_trades = None
        /\ backtest.train_performance = None
        /\ backtest.validation_performance = None
        /\ full_data = data
        /\ train_data = SliceOfTrain
        /\ validation_data = SliceOfValidation

\* the error value for the name "rsi", with periods that make the generator
\* raise when it is called
C12_Witness ==
    /\ pc = "backtest_done"
    /\ strategy_name = "rsi"
    /\ backtest.out.error = "Unknown strategy: rsi"
    /\ short_period = 0
    /\ Len(train_data) > long_period

\* run_backtest has returned its result dict (not the error value)
BacktestDone ==
    pc = "backtest_done" /\ strategy_name = "moving_average_crossover"

\* C20: training_results are the generator and the calculator applied to the
\* train slice, validation_results the same applied to the validation slice;
\* the first validation signal, if any, is a BUY; and a second request whose
\* series differs in a training bar only returns the same validation_results.
C20_SlicesIndependent ==
    BacktestDone =>
        LET out == backtest.out
            tt == Strategy(SliceOfTrain, short_period, long_period).trades
            vt == Strategy(SliceOfValidation, short_period,
                           long_period).trades
        IN  /\ out.training_results.trades = tt
            /\ out.training_results.performance
                   = CalculatePerformance(tt, initial_capital)
            /\ out.validation_results.trades = vt
            /\ out.validation_results.performance
                   = CalculatePerformance(vt, initial_capital)
            /\ vt # <<>> => vt[1].action = "BUY"
            /\ \A n \in 1..Len(vt) :
                   \E k \in 1..Len(validation_data) :
                       /\ vt[n].date = validation_data[k].date
                       /\ vt[n].price = validation_data[k].close
            /\ backtest.run = 2 =>
                   /\ validation_data = backtest.first.validation_data
                   /\ out.validation_results
                          = backtest.first.out.validation_results
                   /\ out.summary.validation_return
                          = backtest.first.out.summary.validation_return

\* a second request whose training signals differ from those of the first,
\* which ended with an open position, and whose validation signals exist
C20_Witness ==
    /\ BacktestDone
    /\ backtest.run = 2
    /\ short_period < long_period
    /\ backtest.out.training_results
           # backtest.first.out.training_results
    /\ LET ft == backtest.first.out.training_results.trades
       IN  ft # <<>> /\ ft[Len(ft)].action = "BUY"
    /\ backtest.out.validation_results.trades # <<>>

-----------------------------------------------------------------------------
(* Further properties of run_backtest (SpecBacktest) *)

\* the split leaves a slice empty: f = 1.0, or no bar at all
DegenerateSplit == train_split = <<1, 1>> \/ data = <<>>

\* C21: with f = 1.0 or N = 0, and positive periods, building the engine and
\* calling run_backtest raises no error and returns a result in which every
\* empty slice has an empty signal list and the zero-activity report.
C21_DegenerateSplitNoError ==
    (DegenerateSplit /\ short_period > 0 /\ long_period > 0
     /\ strategy_name = "moving_average_crossover"
     /\ pc \notin {"engine_new", "engine_ready"}) =>
        /\ pc = "backtest_done"
        /\ raised = "none"
        /\ validation_data = <<>>
        /\ backtest.out.validation_results.trades = <<>>
        /\ backtest.out.validation_results.performance
               = ZeroActivityReport(initial_capital)
        /\ data = <<>> =>
               /\ train_data = <<>>
               /\ backtest.out.training_results.trades = <<>>
               /\ backtest.out.training_results.performance
                      = ZeroActivityReport(initial_capital)

\* C23: in the data summary, train_data_points + validation_data_points =
\* total_data_points; for a non-empty slice start and end are the dates of
\* its first and last bar, for an empty slice both are None.
C23_DataSummary ==
    BacktestDone =>
        LET s == backtest.out.data_summary
            k == Len(train_data)
            N == Len(full_data)
        IN  /\ s.total_data_points = N
            /\ s.train_data_points + s.validation_data_points
                   = s.total_data_points
            /\ s.train_data_points = k
            /\ IF k > 0
               THEN /\ s.train_period.start = <<full_data[1].date>>
                    /\ s.train_period.end = <<full_data[k].date>>
               ELSE /\ s.train_period.start = <<>>
                    /\ s.train_period.end = <<>>
            /\ IF N > k
               THEN /\ s.validation_period.start = <<full_data[k + 1].date>>
                    /\ s.validation_period.end = <<full_data[N].date>>
               ELSE /\ s.validation_period.start = <<>>
                    /\ s.validation_period.end = <<>>

\* a summary of a train slice of several bars and an empty validation slice
C23_Witness ==
    /\ BacktestDone
    /\ backtest.out.data_summary.train_data_points >= 2
    /\ backtest.out.data_summary.validation_data_points = 0
    /\ backtest.out.data_summary.train_period.start
           # backtest.out.data_summary.train_period.end
    /\ backtest.out.data_summary.validation_period.start = <<>>

-----------------------------------------------------------------------------
(* Further properties of the optimizer (SpecOpt) *)

\* C22: all_results holds each record of results exactly once and nothing
\* else, and its returns are in non-increasing order.
C22_AllResultsSorted ==
    OptDone =>
        LET rs == opt.results
            all == opt.out.all_results
        IN  /\ Len(all) = Len(rs)
            /\ \A k \in 1..Len(rs) :
                   Cardinality({j \in 1..Len(all) : all[j] = rs[k]}) = 1
            /\ \A j \in 1..Len(all) : \E k \in 1..Len(rs) : all[j] = rs[k]
            /\ \A j \in 1..(Len(all) - 1) : all[j].return >= all[j + 1].return

\* a result whose pairs were not met in the order of their returns and have
\* at least three different returns
C22_Witness ==
    /\ OptDone
    /\ opt.out.all_results # opt.results
    /\ Cardinality({opt.results[k].return : k \in 1..Len(opt.results)}) >= 3

\* C26: the first record of all_results is the pair of best_parameters and
\* has the return of best_parameters.performance, also when several pairs
\* tie for the maximum.
C26_BestIsFirstOfAllResults ==
    OptDone =>
        LET bp == opt.out.best_parameters
            top == opt.out.all_results[1]
        IN  /\ opt.out.all_results # <<>>
            /\ top.short_period = bp.short_period
            /\ top.long_period = bp.long_period
            /\ top.return = bp.performance.total_return
            /\ top.win_rate = bp.performance.win_rate
            /\ top.total_trades = bp.performance.total_trades

\* a result in which two pairs tie for a maximum that is not 0 and a pair
\* with a smaller return was met before them
C26_Witness ==
    /\ OptDone
    /\ opt.out.all_results[1].return > 0
    /\ opt.out.all_results[2].return = opt.out.all_results[1].return
    /\ opt.results[1].return < opt.out.all_results[1].return

\* no grid pair with short < long yields 2 signals or more on the train slice
NoPairWithTwoSignals ==
    \A p \in ValidPairs : Len(Strategy(train_data, p[1], p[2]).trades) < 2

\* C27: for non-empty data best_parameters is not None; when no grid pair
\* yields at least 2 signals on the train slice, as is the case whenever the
\* slice has at most 20 bars, every record has return 0.0 and
\* total_trades 0 and best_parameters is the pair (5, 20) with the
\* zero-activity report.
C27_BestNeverNone ==
    OptDone =>
        /\ opt.out.best_parameters # None
        /\ Len(train_data) <= 20 => NoPairWithTwoSignals
        /\ NoPairWithTwoSignals =>
               /\ \A k \in 1..Len(opt.out.all_results) :
                      /\ opt.out.all_results[k].return = 0
                      /\ opt.out.all_results[k].total_trades = 0
               /\ opt.out.best_parameters.short_period = 5
               /\ opt.out.best_parameters.long_period = 20
               /\ opt.out.best_parameters.performance
                      = ZeroActivityReport(initial_capital)

\* a result on a longer train slice on which a pair yields one signal and
\* none yields two
C27_Witness ==
    /\ OptDone
    /\ Len(train_data) > 20
    /\ NoPairWithTwoSignals
    /\ \E p \in ValidPairs : Len(Strategy(train_data, p[1], p[2]).trades) = 1

-----------------------------------------------------------------------------
(* Look-ahead of the signal generator (SpecStrategy) *)

\* the signals of the list sigs at bars before position m of the series s
SignalsAtBarsBefore(sigs, s, m) ==
    SubSeq(sigs, 1,
           Cardinality({n \in 1..Len(sigs) :
                            \E k \in 1..m : sigs[n].date = s[k].date}))

\* the series s with the close of its last bar set to c
WithLastClose(s, c) == [s EXCEPT ![Len(s)].close = c]

\* C24: with 0 < short_period < long_period, for every m with
\* long_period <= m <= len(S) the signals generated on the prefix S[0:m] are
\* the signals generated on S at bars before position m, and another close
\* in the last bar of S leaves the signals at earlier bars as they are.
C24_NoLookAhead ==
    (pc = "strategy_returned" /\ 0 < short_period
     /\ short_period < long_period) =>
        /\ \A m \in long_period..Len(data) :
               Strategy(Slice(data, 0, m), short_period, long_period).trades
                   = SignalsAtBarsBefore(trades, data, m)
        /\ Len(data) > 0 =>
               \A c \in 1..MaxClose :
                   SignalsAtBarsBefore(
                       Strategy(WithLastClose(data, c), short_period,
                                long_period).trades,
                       data, Len(data) - 1)
                     = SignalsAtBarsBefore(trades, data, Len(data) - 1)

-----------------------------------------------------------------------------
(* A trailing BUY in the signal list (SpecPerf) *)

\* the list without its last signal, and the locals after the loop over it
WithoutLast == SubSeq(trades, 1, Len(trades) - 1)
LocalsBeforeLast ==
    PerfLoop(PerfLocals(initial_capital), WithoutLast, 1, initial_capital)

\* final_capital and total_return are those of the report on WithoutLast
SameAsWithoutLast ==
    LET shorter == CalculatePerformance(WithoutLast, initial_capital)
    IN  /\ report.final_capital = shorter.final_capital
        /\ report.total_return = shorter.total_return

\* C25 as stated: for a list of at least 2 signals that ends with a BUY,
\* final_capital is the capital held just before that BUY, and final_capital
\* and total_return are those of the list without the trailing BUY whenever
\* that shorter list has at least 2 signals.
C25_TrailingBuyIsNeutral ==
    (pc = "perf_done" /\ EndsWithBuy) =>
        /\ report.final_capital = Round2(LocalsBeforeLast.capital)
        /\ Len(WithoutLast) >= 2 => SameAsWithoutLast

\* C25 as amended: for a list of at least 2 signals that ends with a BUY,
\* final_capital is the capital held just before that BUY, which is 0 when
\* shares are held at that point; if the shorter list has at least 2
\* signals, final_capital and total_return are those of the shorter list
\* exactly when no shares are held before the trailing BUY, and with shares
\* held the trailing BUY leaves final_capital = 0 and total_return = -100.
C25_TrailingBuyAmended ==
    (pc = "perf_done" /\ EndsWithBuy) =>
        /\ report.final_capital = Round2(LocalsBeforeLast.capital)
        /\ LocalsBeforeLast.shares[1] > 0 =>
               /\ LocalsBeforeLast.capital = <<0, 1>>
               /\ report.final_capital = 0
               /\ report.total_return = -100 * 100
        /\ Len(WithoutLast) >= 2 =>
               (SameAsWithoutLast <=> LocalsBeforeLast.shares[1] = 0)

\* a report on [BUY, SELL, BUY] at three different prices
C25_Witness ==
    /\ pc = "perf_done"
    /\ Len(trades) = 3
    /\ trades[1].action = "BUY"
    /\ trades[2].action = "SELL"
    /\ trades[3].action = "BUY"
    /\ trades[1].price # trades[2].price
    /\ trades[3].price # trades[1].price
    /\ trades[3].price # trades[2].price
    /\ report.final_capital # 100 * initial_capital

====
